---- MODULE Spec2Model ----
(***************************************************************************)
(* Parameter management of pde.tools.parameters: the descriptors           *)
(* (Parameter, DeprecatedParameter, HideParameter), the class registry     *)
(* filled by Parameterized.__init_subclass__, the resolution of a class's  *)
(* parameters along its method resolution order (get_parameters), the      *)
(* binding of instance values (_parse_parameters, __init__), the default   *)
(* lookup (get_parameter_default) and the registry query                   *)
(* (get_all_parameters).                                                   *)
(*                                                                         *)
(* Classes are numbered in definition order; 0 is Parameterized itself.    *)
(* A descriptor is an item of the list of the class that declared it and   *)
(* is referred to by <<class, position>>: resolution hands out references  *)
(* to these shared objects, as the Python code does.                       *)
(***************************************************************************)
EXTENDS Integers, Sequences, FiniteSets, TLC

VARIABLES classes, declared, subclasses, last

vars == <<classes, declared, subclasses, last>>

\* The number of classes defined below Parameterized.
MaxClasses == 3

(***************************************************************************)
(* Values: Python ints and strs by their printed form, and None.           *)
(***************************************************************************)
None == [typ |-> "none", rep |-> ""]

IntVal(r) == [typ |-> "int", rep |-> r]

StrVal(r) == [typ |-> "str", rep |-> r]

\* The strings int() parses.
Numerals == {"1", "2", "3", "5"}

\* cls(value) for the types the descriptors use: int() parses a numeral or
\* raises ValueError, str() prints, object is never called (see convert).
CallCls(cls, value) ==
    CASE cls = "int" ->
            IF value.typ = "int" THEN [ok |-> TRUE, val |-> value]
            ELSE IF value.typ = "str" /\ value.rep \in Numerals
                 THEN [ok |-> TRUE, val |-> IntVal(value.rep)]
                 ELSE [ok |-> FALSE, val |-> value]
      [] cls = "str" -> [ok |-> TRUE, val |-> StrVal(value.rep)]
      [] OTHER -> [ok |-> TRUE, val |-> value]

(***************************************************************************)
(* Descriptors.  HideParameter has a name only; the other fields are       *)
(* fillers that keep the items of a list of one shape.                     *)
(***************************************************************************)
Parameter(name, default_value, cls) ==
    [kind |-> "Parameter", name |-> name, default_value |-> default_value,
     cls |-> cls, description |-> "", hidden |-> FALSE]

DeprecatedParameter(name, default_value, cls) ==
    [kind |-> "DeprecatedParameter", name |-> name,
     default_value |-> default_value, cls |-> cls, description |-> "",
     hidden |-> FALSE]

HideParameter(name) ==
    [kind |-> "HideParameter", name |-> name, default_value |-> None,
     cls |-> "object", description |-> "", hidden |-> FALSE]

\* isinstance(p, Parameter): DeprecatedParameter is a subclass of Parameter.
IsParameter(p) == p.kind \in {"Parameter", "DeprecatedParameter"}

\* Parameter.convert
Convert(p, value) ==
    LET v == IF value = None THEN p.default_value ELSE value
    IN  IF p.cls = "object" THEN [ok |-> TRUE, val |-> v]
        ELSE CallCls(p.cls, v)

(***************************************************************************)
(* Names of parameters, and Python's order on them (sorted()).             *)
(***************************************************************************)
Names == {"x", "y"}

NameOrder == <<"x", "y">>

SortedKeys(S) == SelectSeq(NameOrder, LAMBDA n : n \in S)

(***************************************************************************)
(* The class bodies the model defines classes with: no parameters_default  *)
(* of its own, a list of descriptors, or a dict of name -> default.        *)
(***************************************************************************)
NoList == [form |-> "none", items |-> <<>>]

ListOf(items) == [form |-> "list", items |-> items]

DictOf(pairs) == [form |-> "dict", items |-> pairs]

BaseBody ==
    ListOf(<<Parameter("x", IntVal("1"), "int"), Parameter("y", StrVal("a"), "str")>>)

DerivedBody ==
    ListOf(<<Parameter("x", IntVal("2"), "int"), HideParameter("y")>>)

DictBody == DictOf(<<<<"x", IntVal("3")>>>>)

DeprecatedBody == ListOf(<<DeprecatedParameter("y", IntVal("3"), "int")>>)

RedeclareBody ==
    ListOf(<<HideParameter("y"), Parameter("y", StrVal("c"), "object")>>)

ClassBodies ==
    {NoList, BaseBody, DerivedBody, DictBody, DeprecatedBody, RedeclareBody}

\* __init_subclass__, lines 160-164: a dict becomes a list of
\* Parameter(name, default) whose cls is object.
NormalizeDefault(body) ==
    IF body.form = "dict"
    THEN [k \in 1..Len(body.items) |->
            Parameter(body.items[k][1], body.items[k][2], "object")]
    ELSE body.items

(***************************************************************************)
(* The class table.  A class is [name, parent, own, params]: own says      *)
(* whether the class body assigned parameters_default.                     *)
(***************************************************************************)
ClassIds(tbl) == 1..Len(tbl)

\* cls.__mro__ without object, which has no parameters_default: the class,
\* its parents, Parameterized (0).
RECURSIVE Mro(_, _)
Mro(tbl, c) == IF c = 0 THEN <<0>> ELSE <<c>> \o Mro(tbl, tbl[c].parent)

Reverse(s) == [k \in 1..Len(s) |-> s[Len(s) + 1 - k]]

\* The class whose list the attribute lookup cls.parameters_default finds:
\* the nearest class in the mro that assigned one (Parameterized assigns []).
RECURSIVE ListOwner(_, _)
ListOwner(tbl, c) ==
    IF c = 0 \/ tbl[c].own THEN c ELSE ListOwner(tbl, tbl[c].parent)

ParametersDefault(tbl, c) ==
    LET o == ListOwner(tbl, c) IN IF o = 0 THEN <<>> ELSE tbl[o].params

Item(tbl, ref) == tbl[ref[1]].params[ref[2]]

\* The references to the items of cls.parameters_default, in list order.
ItemRefs(tbl, c) ==
    LET o == ListOwner(tbl, c)
    IN  [j \in 1..Len(ParametersDefault(tbl, c)) |-> <<o, j>>]

(***************************************************************************)
(* Python dicts name -> descriptor, as sequences of <<name, ref>> in       *)
(* insertion order.                                                        *)
(***************************************************************************)
Keys(m) == {m[k][1] : k \in 1..Len(m)}

Lookup(m, n) == m[CHOOSE k \in 1..Len(m) : m[k][1] = n][2]

SetItem(m, n, ref) ==
    IF n \in Keys(m)
    THEN [k \in 1..Len(m) |-> IF m[k][1] = n THEN <<n, ref>> ELSE m[k]]
    ELSE Append(m, <<n, ref>>)

DelItem(m, n) == SelectSeq(m, LAMBDA e : e[1] # n)

SortedItems(m) ==
    LET ks == SortedKeys(Keys(m))
    IN  [k \in 1..Len(ks) |-> <<ks[k], Lookup(m, ks[k])>>]

SetHidden(tbl, ref) == [tbl EXCEPT ![ref[1]].params[ref[2]].hidden = TRUE]

(***************************************************************************)
(* get_parameters.  The state of the loop is [ok, parameters, tbl]; a      *)
(* KeyError (ok = FALSE) leaves the table as changed so far.               *)
(***************************************************************************)
\* A hide directive that removes the name whatever include_hidden says.
ApplyItemAlwaysDeletes(st, ref, include_hidden, include_deprecated) ==
    LET p == Item(st.tbl, ref)
    IN  IF p.kind = "HideParameter"
        THEN IF p.name \notin Keys(st.parameters)
             THEN [st EXCEPT !.ok = FALSE]
             ELSE [st EXCEPT !.parameters = DelItem(st.parameters, p.name)]
        ELSE IF include_deprecated \/ p.kind # "DeprecatedParameter"
             THEN [st EXCEPT !.parameters = SetItem(st.parameters, p.name, ref)]
             ELSE st

\* A walk that inserts deprecated descriptors whatever include_deprecated
\* says.
ApplyItemKeepsDeprecated(st, ref, include_hidden, include_deprecated) ==
    LET p == Item(st.tbl, ref)
    IN  IF p.kind = "HideParameter"
        THEN IF p.name \notin Keys(st.parameters)
             THEN [st EXCEPT !.ok = FALSE]
             ELSE IF include_hidden
                  THEN [st EXCEPT
                          !.tbl = SetHidden(st.tbl, Lookup(st.parameters, p.name))]
                  ELSE [st EXCEPT !.parameters = DelItem(st.parameters, p.name)]
        ELSE [st EXCEPT !.parameters = SetItem(st.parameters, p.name, ref)]

\* Lines 190-197: one item p of a list.
ApplyItem(st, ref, include_hidden, include_deprecated) ==
    LET p == Item(st.tbl, ref)
    IN  IF p.kind = "HideParameter"
        THEN IF p.name \notin Keys(st.parameters)
             THEN [st EXCEPT !.ok = FALSE]
             ELSE IF include_hidden
                  THEN [st EXCEPT
                          !.tbl = SetHidden(st.tbl, Lookup(st.parameters, p.name))]
                  ELSE [st EXCEPT !.parameters = DelItem(st.parameters, p.name)]
        ELSE IF include_deprecated \/ p.kind # "DeprecatedParameter"
             THEN [st EXCEPT !.parameters = SetItem(st.parameters, p.name, ref)]
             ELSE st

\* Line 189: the items of one list, in order, until one raises.
RECURSIVE ApplyList(_, _, _, _, _)
ApplyList(st, refs, k, include_hidden, include_deprecated) ==
    IF k > Len(refs) \/ ~st.ok THEN st
    ELSE ApplyList(ApplyItem(st, refs[k], include_hidden, include_deprecated),
                   refs, k + 1, include_hidden, include_deprecated)

\* Lines 187-188: the classes of reversed(cls.__mro__), each with the list
\* its attribute lookup finds.
RECURSIVE ApplyClasses(_, _, _, _, _)
ApplyClasses(st, order, k, include_hidden, include_deprecated) ==
    IF k > Len(order) \/ ~st.ok THEN st
    ELSE ApplyClasses(
           ApplyList(st, ItemRefs(st.tbl, order[k]), 1,
                     include_hidden, include_deprecated),
           order, k + 1, include_hidden, include_deprecated)

\* A walk in the order of the mro, the most specific class first.
WalkOrderSpecificFirst(tbl, c) == Mro(tbl, c)

\* Line 187: reversed(cls.__mro__), the most general class first.
WalkOrder(tbl, c) == Reverse(Mro(tbl, c))

GetParameters(tbl, c, include_hidden, include_deprecated, sort) ==
    LET st == ApplyClasses([ok |-> TRUE, parameters |-> <<>>, tbl |-> tbl],
                           WalkOrder(tbl, c), 1,
                           include_hidden, include_deprecated)
    IN  IF ~st.ok THEN [st EXCEPT !.parameters = <<>>]
        ELSE IF sort THEN [st EXCEPT !.parameters = SortedItems(st.parameters)]
        ELSE st

\* What the caller sees of a returned mapping: each name with its
\* descriptor's identity and attributes at the time of the return.
Returned(r) ==
    [k \in 1..Len(r.parameters) |->
        LET p == Item(r.tbl, r.parameters[k][2])
        IN  [name |-> r.parameters[k][1], ref |-> r.parameters[k][2],
             kind |-> p.kind, default_value |-> p.default_value,
             cls |-> p.cls, hidden |-> p.hidden]]

(***************************************************************************)
(* State.                                                                  *)
(***************************************************************************)
Idle ==
    [op |-> "idle", cls |-> 0, args |-> <<>>, status |-> "ok", value |-> <<>>]

Init ==
    /\ classes = <<>>
    /\ declared = <<>>
    /\ subclasses = <<>>
    /\ last = Idle

\* A registry that keeps the first class registered under a name.
DefineClassKeepFirst(name, parent, body) ==
    /\ last.op = "idle"
    /\ Len(classes) < MaxClasses
    /\ LET c == [name |-> name, parent |-> parent,
                 own |-> body.form # "none",
                 params |-> NormalizeDefault(body)]
           id == Len(classes) + 1
       IN  /\ classes' = Append(classes, c)
           /\ declared' = Append(declared, c)
           /\ subclasses' =
                [n \in DOMAIN subclasses \cup {name} |->
                    IF n \in DOMAIN subclasses THEN subclasses[n] ELSE id]
    /\ UNCHANGED last

\* A class statement: __init_subclass__ normalizes the list and registers
\* the class under its name (line 168), replacing an earlier class of that
\* name.
DefineClass(name, parent, body) ==
    /\ last.op = "idle"
    /\ Len(classes) < MaxClasses
    /\ LET c == [name |-> name, parent |-> parent,
                 own |-> body.form # "none",
                 params |-> NormalizeDefault(body)]
           id == Len(classes) + 1
       IN  /\ classes' = Append(classes, c)
           /\ declared' = Append(declared, c)
           /\ subclasses' =
                [n \in DOMAIN subclasses \cup {name} |->
                    IF n = name THEN id ELSE subclasses[n]]
    /\ UNCHANGED last

ChainNames == <<"A", "B", "C", "D">>

\* Each class derives from the one defined before it.
DefineSubclass ==
    \E body \in ClassBodies :
        /\ Len(classes) < Len(ChainNames)
        /\ DefineClass(ChainNames[Len(classes) + 1], Len(classes), body)

CallGetParameters ==
    /\ last.op = "idle"
    /\ \E c \in ClassIds(classes), include_hidden \in BOOLEAN,
          include_deprecated \in BOOLEAN, sort \in BOOLEAN :
        LET r == GetParameters(classes, c, include_hidden,
                               include_deprecated, sort)
        IN  /\ classes' = r.tbl
            /\ last' = [op |-> "get_parameters", cls |-> c,
                        args |-> [include_hidden |-> include_hidden,
                                  include_deprecated |-> include_deprecated,
                                  sort |-> sort],
                        status |-> IF r.ok THEN "ok" ELSE "KeyError",
                        value |-> Returned(r)]
    /\ UNCHANGED <<declared, subclasses>>

(***************************************************************************)
(* _parse_parameters.  A dict of overrides is a function from some names   *)
(* to values; parameters=None is the empty dict (lines 223-224).           *)
(***************************************************************************)
OverrideValues == {StrVal("5"), StrVal("a")}

Overrides == UNION {[S -> OverrideValues] : S \in SUBSET Names}

Without(d, n) == [m \in DOMAIN d \ {n} |-> d[m]]

\* Lines 235-238: one name of param_objs; parameters is the copy made at
\* line 226.
ParseItem(st, entry, tbl, allow_hidden) ==
    LET name == entry[1]
        param_obj == Item(tbl, entry[2])
        supplied == IF name \in DOMAIN st.parameters
                    THEN st.parameters[name] ELSE None
        conv == Convert(param_obj, supplied)
    IN  IF ~allow_hidden /\ param_obj.hidden THEN st
        ELSE IF ~conv.ok
             THEN [st EXCEPT !.ok = FALSE,
                             !.parameters = Without(st.parameters, name)]
             ELSE [ok |-> TRUE,
                   result |-> (name :> conv.val) @@ st.result,
                   parameters |-> Without(st.parameters, name)]

RECURSIVE ParseLoop(_, _, _, _, _)
ParseLoop(st, param_objs, k, tbl, allow_hidden) ==
    IF k > Len(param_objs) \/ ~st.ok THEN st
    ELSE ParseLoop(ParseItem(st, param_objs[k], tbl, allow_hidden),
                   param_objs, k + 1, tbl, allow_hidden)

\* A loop that pops from the caller's own dict.
CallerDictNoCopy(overrides, leftover) == leftover

\* Line 226: the loop works on a copy, the caller keeps its dict.
CallerDict(overrides, leftover) == overrides

\* status: ok, KeyError (get_parameters raised), ConversionError (the
\* ValueError of convert) or UnknownParameter (the ValueError of line 242,
\* which lists sorted(parameters.keys())).
ParseParameters(tbl, c, overrides, check_validity, allow_hidden, include_deprecated) ==
    LET r == GetParameters(tbl, c, allow_hidden, include_deprecated, TRUE)
        st == ParseLoop([ok |-> TRUE, result |-> <<>>,
                         parameters |-> overrides],
                        r.parameters, 1, r.tbl, allow_hidden)
        none == [result |-> <<>>, unknown |-> <<>>,
                 caller |-> CallerDict(overrides, st.parameters)]
    IN  IF ~r.ok
        THEN [status |-> "KeyError", tbl |-> r.tbl,
              value |-> [none EXCEPT !.caller = overrides]]
        ELSE IF ~st.ok
        THEN [status |-> "ConversionError", tbl |-> r.tbl, value |-> none]
        ELSE IF check_validity /\ DOMAIN st.parameters # {}
        THEN [status |-> "UnknownParameter", tbl |-> r.tbl,
              value |-> [none EXCEPT
                            !.unknown = SortedKeys(DOMAIN st.parameters)]]
        ELSE [status |-> "ok", tbl |-> r.tbl,
              value |-> [none EXCEPT !.result = st.parameters @@ st.result]]

\* A constructor that does not allow hidden parameters.
InitParametersHiddenNotAllowed(tbl, c, parameters) ==
    ParseParameters(tbl, c, parameters, TRUE, FALSE, FALSE)

\* Parameterized.__init__: self.parameters = self._parse_parameters(parameters)
InitParameters(tbl, c, parameters) ==
    ParseParameters(tbl, c, parameters, TRUE, TRUE, FALSE)

(***************************************************************************)
(* get_parameter_default, on an instance of class c.                       *)
(***************************************************************************)
FirstNamed(list, name) ==
    LET S == {j \in 1..Len(list) : IsParameter(list[j]) /\ list[j].name = name}
    IN  IF S = {} THEN 0 ELSE CHOOSE j \in S : \A i \in S : j <= i

\* A lookup that starts at the most general class.
DefaultLookupGeneralFirst(tbl, c) == Reverse(Mro(tbl, c))

\* Line 257: the classes of self.__class__.__mro__, most specific first.
DefaultLookupOrder(tbl, c) == Mro(tbl, c)

RECURSIVE DefaultIn(_, _, _, _)
DefaultIn(tbl, order, k, name) ==
    IF k > Len(order) THEN [ok |-> FALSE, val |-> None]
    ELSE LET list == ParametersDefault(tbl, order[k])
             j == FirstNamed(list, name)
         IN  IF j # 0 THEN [ok |-> TRUE, val |-> list[j].default_value]
             ELSE DefaultIn(tbl, order, k + 1, name)

GetParameterDefault(tbl, c, name) ==
    DefaultIn(tbl, DefaultLookupOrder(tbl, c), 1, name)

(***************************************************************************)
(* get_all_parameters(data).  "None" stands for data=None (the names of    *)
(* the parameters); any string but 'value' and 'description' is refused    *)
(* inside the loop, so only when a class is registered.                    *)
(***************************************************************************)
DataModes == {"None", "value", "description", "names"}

RegisteredParameters(tbl, c) == GetParameters(tbl, c, FALSE, FALSE, TRUE)

GetAllParameters(tbl, reg, data) ==
    LET res(n) == RegisteredParameters(tbl, reg[n])
        entry(n) ==
            LET v == Returned(res(n))
            IN  CASE data = "None" -> {v[k].name : k \in 1..Len(v)}
                  [] data = "value" ->
                       [k \in 1..Len(v) |-> <<v[k].name, v[k].default_value>>]
                  [] OTHER ->
                       [k \in 1..Len(v) |->
                           <<v[k].name, Item(tbl, v[k].ref).description>>]
    IN  IF DOMAIN reg = {} THEN [status |-> "ok", value |-> <<>>]
        ELSE IF data \notin {"None", "value", "description"}
        THEN [status |-> "ValueError", value |-> <<>>]
        ELSE IF \E n \in DOMAIN reg : ~res(n).ok
        THEN [status |-> "KeyError", value |-> <<>>]
        ELSE [status |-> "ok", value |-> [n \in DOMAIN reg |-> entry(n)]]

(***************************************************************************)
(* The calls.                                                              *)
(***************************************************************************)
CallParseParameters ==
    /\ last.op = "idle"
    /\ \E c \in ClassIds(classes), parameters \in Overrides,
          check_validity \in BOOLEAN, allow_hidden \in BOOLEAN,
          include_deprecated \in BOOLEAN :
        LET r == ParseParameters(classes, c, parameters, check_validity,
                                 allow_hidden, include_deprecated)
        IN  /\ classes' = r.tbl
            /\ last' = [op |-> "_parse_parameters", cls |-> c,
                        args |-> [parameters |-> parameters,
                                  check_validity |-> check_validity,
                                  allow_hidden |-> allow_hidden,
                                  include_deprecated |-> include_deprecated],
                        status |-> r.status, value |-> r.value]
    /\ UNCHANGED <<declared, subclasses>>

\* cls(parameters): on success value.result is the instance's parameters.
Construct ==
    /\ last.op = "idle"
    /\ \E c \in ClassIds(classes), parameters \in Overrides :
        LET r == InitParameters(classes, c, parameters)
        IN  /\ classes' = r.tbl
            /\ last' = [op |-> "__init__", cls |-> c,
                        args |-> [parameters |-> parameters],
                        status |-> r.status, value |-> r.value]
    /\ UNCHANGED <<declared, subclasses>>

CallGetParameterDefault ==
    /\ last.op = "idle"
    /\ \E c \in ClassIds(classes), name \in Names :
        LET r == GetParameterDefault(classes, c, name)
        IN  last' = [op |-> "get_parameter_default", cls |-> c,
                     args |-> [name |-> name],
                     status |-> IF r.ok THEN "ok" ELSE "KeyError",
                     value |-> r.val]
    /\ UNCHANGED <<classes, declared, subclasses>>

CallGetAllParameters ==
    /\ last.op = "idle"
    /\ \E data \in DataModes :
        LET r == GetAllParameters(classes, subclasses, data)
        IN  last' = [op |-> "get_all_parameters", cls |-> 0,
                     args |-> [data |-> data],
                     status |-> r.status, value |-> r.value]
    /\ UNCHANGED <<classes, declared, subclasses>>

\* The caller drops the result of the last call.
Return ==
    /\ last.op # "idle"
    /\ last' = Idle
    /\ UNCHANGED <<classes, declared, subclasses>>

Next ==
    \/ DefineSubclass
    \/ CallGetParameters
    \/ CallParseParameters
    \/ Construct
    \/ CallGetParameterDefault
    \/ CallGetAllParameters
    \/ Return

Spec == Init /\ [][Next]_vars

(***************************************************************************)
(* The declarations of a chain, read off the class table without walking   *)
(* it: the classes of the chain of c, the descriptors and the hide         *)
(* directives their own lists hold for a name.  A class is numbered after  *)
(* its parent, so the larger number is the more specific class.            *)
(***************************************************************************)
Chain(c) == {Mro(classes, c)[k] : k \in 1..Len(Mro(classes, c))} \ {0}

RefsOf(C) == UNION {{<<i, j>> : j \in 1..Len(classes[i].params)} : i \in C}

Descriptors(c, n) ==
    {r \in RefsOf(Chain(c)) :
        IsParameter(Item(classes, r)) /\ Item(classes, r).name = n}

Directives(c, n) ==
    {r \in RefsOf(Chain(c)) :
        Item(classes, r).kind = "HideParameter" /\ Item(classes, r).name = n}

NormalDescriptors(c, n) ==
    {r \in Descriptors(c, n) : Item(classes, r).kind = "Parameter"}

Before(q, r) == q[1] < r[1] \/ (q[1] = r[1] /\ q[2] < r[2])

Latest(S) == CHOOSE r \in S : \A q \in S : q = r \/ Before(q, r)

ValueNames(v) == {v[k].name : k \in 1..Len(v)}

ValueOf(v, n) == v[CHOOSE k \in 1..Len(v) : v[k].name = n]

\* The resolved mapping a call of _parse_parameters on the current table
\* works with, and whether every value the call converts can be converted.
ParamObjs(c, allow_hidden, include_deprecated) ==
    GetParameters(classes, c, allow_hidden, include_deprecated, TRUE)

Convertible(objs, ov, allow_hidden) ==
    \A k \in 1..Len(objs.parameters) :
        LET n == objs.parameters[k][1]
            p == Item(classes, objs.parameters[k][2])
        IN  (~allow_hidden /\ p.hidden)
              \/ Convert(p, IF n \in DOMAIN ov THEN ov[n] ELSE None).ok

(***************************************************************************)
(* C1 (as stated): constructing an instance of a class whose   *)
(* own list hides an inherited parameter treats the hidden name as unknown:*)
(* an override naming it is rejected with the unknown-parameter error, and *)
(* the instance's parameters do not contain it.                            *)
(***************************************************************************)
HidesInherited(c, n) ==
    /\ \E r \in Directives(c, n) : r[1] = c
    /\ \E r \in Descriptors(c, n) : r[1] # c /\ Item(classes, r).kind = "Parameter"

C1_HiddenNameIsUnknown ==
    last.op = "__init__" =>
        \A n \in Names :
            HidesInherited(last.cls, n) =>
                /\ n \in DOMAIN last.args.parameters =>
                        last.status = "UnknownParameter"
                /\ last.status = "ok" => n \notin DOMAIN last.value.result

(***************************************************************************)
(* C1 (amended): with the default flags (allow_hidden=True) the hidden     *)
(* name of an inherited normal parameter stays a parameter of the class:   *)
(* an override naming it is never listed as unknown, and when construction *)
(* succeeds the instance's parameters hold every name of                   *)
(* get_parameters(include_hidden=True), the hidden one included, with the  *)
(* override converted by its descriptor, else the converted default.       *)
(***************************************************************************)
C1_HiddenNameIsAccepted ==
    last.op = "__init__" =>
        LET ov == last.args.parameters
            objs == ParamObjs(last.cls, TRUE, FALSE)
        IN  \A n \in Names :
              HidesInherited(last.cls, n) =>
                /\ last.status = "UnknownParameter" =>
                      \A k \in 1..Len(last.value.unknown) :
                          last.value.unknown[k] # n
                /\ last.status = "ok" =>
                      /\ DOMAIN last.value.result = Keys(objs.parameters)
                      /\ n \in DOMAIN last.value.result
                      /\ last.value.result[n] =
                            Convert(Item(classes,
                                         Latest(NormalDescriptors(last.cls, n))),
                                    IF n \in DOMAIN ov THEN ov[n] ELSE None).val

C1_Witness ==
    /\ last.op = "__init__"
    /\ last.status = "ok"
    /\ \E n \in Names :
          /\ HidesInherited(last.cls, n)
          /\ n \in DOMAIN last.args.parameters
          /\ n \in DOMAIN last.value.result
          /\ last.value.result[n] = last.args.parameters[n]

(***************************************************************************)
(* C2: resolution is pure.  No call changes an attribute of a declared     *)
(* descriptor, and get_parameters returns, for every class and flags, the  *)
(* names and descriptor attributes it returns on the classes as declared.  *)
(***************************************************************************)
C2_ResolutionIsPure ==
    /\ classes = declared
    /\ \A c \in ClassIds(classes), ih \in BOOLEAN, idep \in BOOLEAN :
          LET now == GetParameters(classes, c, ih, idep, TRUE)
              first == GetParameters(declared, c, ih, idep, TRUE)
          IN  now.ok = first.ok /\ Returned(now) = Returned(first)

(***************************************************************************)
(* C3: a name declared in the chain by normal descriptors only and named   *)
(* by no hide directive is mapped, by get_parameters with any flags, to    *)
(* the descriptor of the most specific class that declares it.             *)
(***************************************************************************)
NormalOnly(c, n) ==
    /\ Descriptors(c, n) # {}
    /\ \A r \in Descriptors(c, n) : Item(classes, r).kind = "Parameter"
    /\ Directives(c, n) = {}

C3_MostSpecificDeclarationWins ==
    (last.op = "get_parameters" /\ last.status = "ok") =>
        \A n \in Names :
            NormalOnly(last.cls, n) =>
                /\ n \in ValueNames(last.value)
                /\ ValueOf(last.value, n).ref = Latest(Descriptors(last.cls, n))

C3_Witness ==
    /\ last.op = "get_parameters"
    /\ last.status = "ok"
    /\ \E n \in Names :
          /\ NormalOnly(last.cls, n)
          /\ Cardinality({r[1] : r \in Descriptors(last.cls, n)}) >= 2
          /\ Latest(Descriptors(last.cls, n))[1] # last.cls
          /\ ValueOf(last.value, n).default_value =
                Item(classes, Latest(Descriptors(last.cls, n))).default_value

(***************************************************************************)
(* C4 (as stated): when an ancestor declares y and the list of *)
(* the descendant B holds a hide directive for y, get_parameters on B      *)
(* returns no y without include_hidden, and y with hidden = True with it.  *)
(***************************************************************************)
HidesDeclared(c, n) ==
    /\ \E r \in Directives(c, n) : r[1] = c
    /\ \E r \in Descriptors(c, n) : r[1] # c

C4_HideDirectiveHides ==
    (last.op = "get_parameters" /\ last.status = "ok") =>
        \A n \in Names :
            HidesDeclared(last.cls, n) =>
                IF last.args.include_hidden
                THEN n \in ValueNames(last.value) /\ ValueOf(last.value, n).hidden
                ELSE n \notin ValueNames(last.value)

(***************************************************************************)
(* C4 (amended): the same, when no descriptor for y follows the hide       *)
(* directive in B's list: whenever get_parameters on B returns, y is       *)
(* absent without include_hidden and present with hidden = True with it.   *)
(***************************************************************************)
HideIsLastWord(c, n) ==
    \E r \in Directives(c, n) :
        r[1] = c /\ \A q \in Descriptors(c, n) : Before(q, r)

C4_LastHideDirectiveHides ==
    (last.op = "get_parameters" /\ last.status = "ok") =>
        \A n \in Names :
            (HidesDeclared(last.cls, n) /\ HideIsLastWord(last.cls, n)) =>
                IF last.args.include_hidden
                THEN n \in ValueNames(last.value) /\ ValueOf(last.value, n).hidden
                ELSE n \notin ValueNames(last.value)

C4_Witness ==
    /\ last.op = "get_parameters"
    /\ last.status = "ok"
    /\ last.args.include_hidden
    /\ \E n \in Names :
          /\ HidesDeclared(last.cls, n)
          /\ HideIsLastWord(last.cls, n)
          /\ ValueOf(last.value, n).hidden
          /\ ValueOf(last.value, n).ref[1] # last.cls

(***************************************************************************)
(* C5: get_parameters fails with KeyError exactly when the list of some    *)
(* class of the chain holds a hide directive whose name no class earlier   *)
(* in the walk and no earlier item of the same list declared.              *)
(***************************************************************************)
HidesUndeclared(c) ==
    \E n \in Names : \E r \in Directives(c, n) :
        \A q \in Descriptors(c, n) : ~Before(q, r)

C5_KeyErrorOnlyForUndeclared ==
    last.op = "get_parameters" =>
        (last.status = "KeyError" <=> HidesUndeclared(last.cls))

(***************************************************************************)
(* C6: a name z that the chain declares by deprecated descriptors only     *)
(* (and no hide directive names) is absent from                            *)
(* get_parameters(include_deprecated=False) and present with True;         *)
(* _parse_parameters given an override for z stores the value converted by *)
(* z's descriptor when called with include_deprecated=True, and with       *)
(* include_deprecated=False and check_validity=True it never succeeds and  *)
(* its unknown-parameter error lists z.                                    *)
(***************************************************************************)
DeprecatedOnly(c, n) ==
    /\ Descriptors(c, n) # {}
    /\ \A r \in Descriptors(c, n) :
          Item(classes, r).kind = "DeprecatedParameter"
    /\ Directives(c, n) = {}

C7_LeftoverKeys ==
    last.op = "_parse_parameters" =>
        LET ov == last.args.parameters
            objs == ParamObjs(last.cls, last.args.allow_hidden,
                              last.args.include_deprecated)
            leftover == DOMAIN ov \ Keys(objs.parameters)
        IN  /\ last.value.caller = ov
            /\ (last.args.allow_hidden /\ objs.ok /\ Convertible(objs, ov, TRUE)) =>
                  IF last.args.check_validity /\ leftover # {}
                  THEN /\ last.status = "UnknownParameter"
                       /\ last.value.unknown = SortedKeys(leftover)
                  ELSE /\ last.status = "ok"
                       /\ DOMAIN last.value.result =
                             Keys(objs.parameters) \cup leftover
                       /\ \A k \in leftover : last.value.result[k] = ov[k]

C7_Witness ==
    /\ last.op = "_parse_parameters"
    /\ last.status = "ok"
    /\ last.args.allow_hidden
    /\ ~last.args.check_validity
    /\ LET ov == last.args.parameters
           names == Keys(ParamObjs(last.cls, TRUE,
                                   last.args.include_deprecated).parameters)
       IN  /\ \E k \in DOMAIN ov \ names : last.value.result[k] = ov[k]
           /\ \E n \in names \cap DOMAIN ov : last.value.result[n] # ov[n]
           /\ last.value.caller = ov

(***************************************************************************)
(* C8 (as stated): every class ever defined is retrievable by  *)
(* its name from the registry, and get_all_parameters in names mode maps   *)
(* the name of each class to the keys of that class's get_parameters().    *)
(***************************************************************************)
DefaultKeys(c) == Keys(GetParameters(classes, c, FALSE, FALSE, TRUE).parameters)

C8_EveryClassRetrievable ==
    \A c \in ClassIds(classes) :
        /\ classes[c].name \in DOMAIN subclasses
        /\ subclasses[classes[c].name] = c
        /\ (last.op = "get_all_parameters" /\ last.args.data = "None"
               /\ last.status = "ok") =>
              last.value[classes[c].name] = DefaultKeys(c)

(***************************************************************************)
(* C8 (amended): the registry holds the name of every class ever defined   *)
(* and maps it to the class defined last under that name (an earlier class *)
(* of the same name is no longer retrievable); get_all_parameters in names *)
(* mode, when it returns, maps each registered name to the keys of         *)
(* get_parameters() of the class registered under it.                      *)
(***************************************************************************)
LastNamed(n) ==
    CHOOSE c \in ClassIds(classes) :
        /\ classes[c].name = n
        /\ \A d \in ClassIds(classes) : classes[d].name = n => d <= c

C8_LastDefinitionRetrievable ==
    /\ DOMAIN subclasses = {classes[c].name : c \in ClassIds(classes)}
    /\ \A n \in DOMAIN subclasses : subclasses[n] = LastNamed(n)
    /\ (last.op = "get_all_parameters" /\ last.args.data = "None"
           /\ last.status = "ok") =>
          /\ DOMAIN last.value = DOMAIN subclasses
          /\ \A n \in DOMAIN subclasses :
                last.value[n] = DefaultKeys(subclasses[n])

C8_Witness ==
    /\ last.op = "get_all_parameters"
    /\ last.args.data = "None"
    /\ last.status = "ok"
    /\ \E c, d \in ClassIds(classes) :
          /\ c < d
          /\ classes[c].name = classes[d].name
          /\ GetParameters(classes, c, FALSE, FALSE, TRUE).ok
          /\ DefaultKeys(c) # DefaultKeys(d)
          /\ last.value[classes[d].name] = DefaultKeys(d)

(***************************************************************************)
(* C9: get_parameter_default(name) returns the default of the first        *)
(* descriptor, normal or deprecated, named name in the list of the most    *)
(* specific class of the chain that declares one, whatever hide directives *)
(* and deprecations the chain holds, and raises KeyError exactly when no   *)
(* class of the chain declares a descriptor of that name.                  *)
(***************************************************************************)
FirstFound(S) ==
    CHOOSE r \in S :
        \A q \in S : q[1] < r[1] \/ (q[1] = r[1] /\ q[2] >= r[2])

C9_DefaultOfMostSpecificDeclaration ==
    last.op = "get_parameter_default" =>
        LET D == Descriptors(last.cls, last.args.name)
        IN  /\ last.status = "KeyError" <=> D = {}
            /\ D # {} =>
                  last.value = Item(classes, FirstFound(D)).default_value

C9_Witness ==
    /\ last.op = "get_parameter_default"
    /\ last.status = "ok"
    /\ LET D == Descriptors(last.cls, last.args.name)
           r == GetParameters(classes, last.cls, FALSE, FALSE, TRUE)
       IN  /\ Cardinality({q[1] : q \in D}) >= 2
           /\ last.value = Item(classes, FirstFound(D)).default_value
           /\ \E q \in D : Item(classes, q).default_value # last.value
           /\ r.ok
           /\ last.args.name \notin Keys(r.parameters)

(***************************************************************************)
(* C10: the list of a class is applied once, for the class that owns it:   *)
(* for a class without a list of its own, get_parameters succeeds whenever *)
(* it succeeds for the parent, and returns the parent's mapping of names   *)
(* to descriptors.                                                         *)
(***************************************************************************)
C10_InheritedListAppliedOnce ==
    (last.op = "get_parameters" /\ ~classes[last.cls].own) =>
        LET r == GetParameters(classes, classes[last.cls].parent,
                               last.args.include_hidden,
                               last.args.include_deprecated, last.args.sort)
        IN  r.ok =>
              /\ last.status = "ok"
              /\ {<<last.value[k].name, last.value[k].ref>> :
                     k \in 1..Len(last.value)}
                   = {r.parameters[k] : k \in 1..Len(r.parameters)}

(***************************************************************************)
(* The registry under arbitrary class statements: any name of ClassNames   *)
(* (so two classes may share one), any class defined so far as parent.     *)
(***************************************************************************)
ClassNames == {"A", "B"}

RegistryBodies == {NoList, BaseBody, DerivedBody}

DefineNamedClass ==
    \E name \in ClassNames, parent \in 0..Len(classes),
       body \in RegistryBodies :
        DefineClass(name, parent, body)

NextRegistry == DefineNamedClass \/ CallGetAllParameters \/ Return

SpecRegistry == Init /\ [][NextRegistry]_vars

====
